---- MODULE Spec2Model ----
(***************************************************************************)
(* Cost Manager front end: the IndexedDB helper library (the module        *)
(* version src/services/idb.js and the vanilla version idb.js) modelled    *)
(* as a state machine over the browser's IndexedDB engine.                 *)
(*                                                                         *)
(* Time is counted in minutes since 1970-01-01T00:00Z (a JavaScript time   *)
(* value with the seconds dropped).  The environment's timezone is a       *)
(* fixed offset from UTC, in minutes.  JavaScript numbers are IEEE-754     *)
(* doubles; a non-negative finite double is the pair m, e of its value     *)
(* m * 2^e, with m an arbitrary-precision natural of exactly 53 bits (or   *)
(* zero), so that arithmetic rounds as the engine's does.                  *)
(***************************************************************************)
EXTENDS Integers, Sequences, FiniteSets, TLC

VARIABLES
    now,      \* the clock: the time value `new Date()` would return
    tz,       \* the timezone offset of the running environment (minutes east of UTC)
    dbs,      \* the origin's IndexedDB databases, by name
    conns,    \* open connections per database name (no operation closes one)
    calls,    \* every library call issued so far, in issue order
    storage,  \* localStorage: what getItem('exchangeRatesUrl') returns (null: <<>>)
    runs      \* every run of a panel's handler started so far, in start order

vars == <<now, tz, dbs, conns, calls, storage, runs>>

\* a step of the library or of the engine: none of the panels' code runs in it
Idle == UNCHANGED <<storage, runs>>

(***************************************************************************)
(* Bounds of the model.                                                    *)
(***************************************************************************)
MaxCalls == 2      \* library calls issued in one behaviour of Spec
MaxRecs == 2       \* records already stored when a report is computed

(***************************************************************************)
(* Calendar: what Date's accessors compute from a time value.              *)
(***************************************************************************)
MinutesOfDay == 24 * 60

\* days since 1970-01-01 of the proleptic Gregorian date y-m-d (m in 1..12)
DaysFromCivil(y, m, d) ==
    LET yy  == IF m <= 2 THEN y - 1 ELSE y
        era == yy \div 400
        yoe == yy - era * 400
        mp  == IF m > 2 THEN m - 3 ELSE m + 9
        doy == (153 * mp + 2) \div 5 + d - 1
        doe == yoe * 365 + yoe \div 4 - yoe \div 100 + doy
    IN  era * 146097 + doe - 719468

\* the Gregorian date of a day number
CivilFromDays(z) ==
    LET zz  == z + 719468
        era == zz \div 146097
        doe == zz - era * 146097
        yoe == (doe - doe \div 1460 + doe \div 36524 - doe \div 146096) \div 365
        doy == doe - (365 * yoe + yoe \div 4 - yoe \div 100)
        mp  == (5 * doy + 2) \div 153
        d   == doy - (153 * mp + 2) \div 5 + 1
        m   == IF mp < 10 THEN mp + 3 ELSE mp - 9
        y   == yoe + era * 400 + (IF m <= 2 THEN 1 ELSE 0)
    IN  [y |-> y, m |-> m, d |-> d]

\* the time value of y-m-d hh:mm UTC
Utc(y, m, d, hh, mm) == DaysFromCivil(y, m, d) * MinutesOfDay + hh * 60 + mm

\* Date.UTC(year, monthIndex, day): monthIndex counts from 0
DateUTC(y, m0, d) == DaysFromCivil(y, m0 + 1, d) * MinutesOfDay

\* the calendar fields of time value t on a clock running off minutes ahead of UTC
Fields(t, off) == CivilFromDays((t + off) \div MinutesOfDay)

\* Date.prototype.getFullYear / getMonth / getDate: fields in local time
getFullYear(t, off) == Fields(t, off).y
getMonth(t, off) == Fields(t, off).m - 1
getDate(t, off) == Fields(t, off).d

\* Date.prototype.getUTCFullYear / getUTCMonth / getUTCDate
getUTCFullYear(t) == Fields(t, 0).y
getUTCMonth(t) == Fields(t, 0).m - 1
getUTCDate(t) == Fields(t, 0).d

\* toISOString().slice(0, 10): the text YYYY-MM-DD, kept as its three numbers
IsoDate(t) == <<getUTCFullYear(t), getUTCMonth(t) + 1, getUTCDate(t)>>

(***************************************************************************)
(* Arbitrary-precision naturals: little-endian sequences of limbs, no      *)
(* leading zero limb; zero is the empty sequence.                          *)
(***************************************************************************)
Base == 2 ^ 15

RECURSIVE IntBitLen(_)
IntBitLen(n) == IF n = 0 THEN 0 ELSE 1 + IntBitLen(n \div 2)

LimbBits == IntBitLen(Base - 1)

RECURSIVE BTrim(_)
BTrim(a) == IF a = <<>> THEN a
            ELSE IF a[Len(a)] = 0 THEN BTrim(SubSeq(a, 1, Len(a) - 1)) ELSE a

BFromInt(n) == BTrim(<<n % Base, (n \div Base) % Base, n \div (Base * Base)>>)

BOne == <<1>>

BLimb(a, i) == IF i <= Len(a) THEN a[i] ELSE 0

RECURSIVE BAddFrom(_, _, _, _)
BAddFrom(a, b, i, c) ==
    IF i > Len(a) /\ i > Len(b) THEN (IF c = 0 THEN <<>> ELSE <<c>>)
    ELSE LET t == BLimb(a, i) + BLimb(b, i) + c
         IN  <<t % Base>> \o BAddFrom(a, b, i + 1, t \div Base)

BAdd(a, b) == BAddFrom(a, b, 1, 0)

RECURSIVE BSubFrom(_, _, _, _)
BSubFrom(a, b, i, c) ==
    IF i > Len(a) THEN <<>>
    ELSE LET t == a[i] - BLimb(b, i) - c
         IN  IF t < 0 THEN <<t + Base>> \o BSubFrom(a, b, i + 1, 1)
             ELSE <<t>> \o BSubFrom(a, b, i + 1, 0)

\* a - b, for a >= b
BSub(a, b) == BTrim(BSubFrom(a, b, 1, 0))

RECURSIVE BCmpFrom(_, _, _)
BCmpFrom(a, b, i) ==
    IF i = 0 THEN 0
    ELSE IF a[i] > b[i] THEN 1
    ELSE IF a[i] < b[i] THEN -1
    ELSE BCmpFrom(a, b, i - 1)

\* -1, 0, 1 as a is below, equal to, above b
BCmp(a, b) == IF Len(a) > Len(b) THEN 1
              ELSE IF Len(a) < Len(b) THEN -1
              ELSE BCmpFrom(a, b, Len(a))

RECURSIVE BMulSmallFrom(_, _, _, _)
BMulSmallFrom(a, k, i, c) ==
    IF i > Len(a) THEN (IF c = 0 THEN <<>> ELSE <<c>>)
    ELSE LET t == a[i] * k + c
         IN  <<t % Base>> \o BMulSmallFrom(a, k, i + 1, t \div Base)

\* a * k for one limb k
BMulSmall(a, k) == IF k = 0 THEN <<>> ELSE BMulSmallFrom(a, k, 1, 0)

BShiftLimbs(a, n) == IF a = <<>> THEN a ELSE [i \in 1..n |-> 0] \o a

RECURSIVE BMulFrom(_, _, _)
BMulFrom(a, b, j) ==
    IF j > Len(b) THEN <<>>
    ELSE BAdd(BShiftLimbs(BMulSmall(a, b[j]), j - 1), BMulFrom(a, b, j + 1))

BMul(a, b) == BMulFrom(a, b, 1)

\* a * 2^k
BShl(a, k) == BMulSmall(BShiftLimbs(a, k \div LimbBits), 2 ^ (k % LimbBits))

BitLen(a) == IF a = <<>> THEN 0 ELSE LimbBits * (Len(a) - 1) + IntBitLen(a[Len(a)])

BOdd(a) == a # <<>> /\ a[1] % 2 = 1

\* floor(a / 2^s) for s below LimbBits, and floor(a / 2^k)
BShrSmall(a, s) ==
    BTrim([i \in 1..Len(a) |->
             (a[i] \div 2 ^ s) + (BLimb(a, i + 1) % 2 ^ s) * 2 ^ (LimbBits - s)])

BShr(a, k) ==
    IF k \div LimbBits >= Len(a) THEN <<>>
    ELSE BShrSmall(SubSeq(a, k \div LimbBits + 1, Len(a)), k % LimbBits)

BHalf(a) == BShrSmall(a, 1)

\* the largest digit q with q * d <= r, searched downwards from the estimate qh
RECURSIVE QFix(_, _, _)
QFix(r, d, qh) == IF BCmp(BMulSmall(d, qh), r) = 1 THEN QFix(r, d, qh - 1) ELSE qh

QTop(r, n) == IF Len(r) > n THEN r[n + 1] * Base + r[n] ELSE r[n]

QCap(qh) == IF qh > Base - 1 THEN Base - 1 ELSE qh

QEst(r, d) ==
    IF Len(r) < Len(d) THEN 0
    ELSE QFix(r, d, QCap(QTop(r, Len(d)) \div d[Len(d)]))

\* schoolbook division of p by d, whose top limb is at least Base / 2: the digits
\* of p from the top, q the quotient so far, r the remainder so far
RECURSIVE BDivFrom(_, _, _, _, _)
BDivDigit(p, d, i, q, r1, qd) ==
    BDivFrom(p, d, i - 1, <<qd>> \o q, BSub(r1, BMulSmall(d, qd)))

BDivNext(p, d, i, q, r1) == BDivDigit(p, d, i, q, r1, QEst(r1, d))

BDivFrom(p, d, i, q, r) ==
    IF i = 0 THEN <<BTrim(q), r>>
    ELSE BDivNext(p, d, i, q, BTrim(<<p[i]>> \o r))

\* floor(p / q), with the remainder r compared to q / 2 (half) and to 0 (exact)
BDivResult(qn, qr) ==
    [quot |-> qr[1], half |-> BCmp(BShl(qr[2], 1), qn), exact |-> qr[2] = <<>>]

BDivNormal(pn, qn) == BDivResult(qn, BDivFrom(pn, qn, Len(pn), <<>>, <<>>))

BDivMod(p, q) ==
    BDivNormal(BShl(p, LimbBits - IntBitLen(q[Len(q)])),
               BShl(q, LimbBits - IntBitLen(q[Len(q)])))

RECURSIVE BPow10(_)
BPow10(k) == IF k = 0 THEN BOne ELSE BMulSmall(BPow10(k - 1), 10)

(***************************************************************************)
(* JavaScript numbers.  [m, e] is the double of value m * 2^e; m has       *)
(* exactly MantBits bits, or is zero.  Every operation is the exact        *)
(* result rounded to the nearest double, ties to even (IEEE-754).          *)
(***************************************************************************)
MantBits == 53

FZero == [m |-> <<>>, e |-> 0]

FNorm(m, e) == IF BitLen(m) > MantBits THEN [m |-> BHalf(m), e |-> e + 1]
               ELSE [m |-> m, e |-> e]

RNUp(m, e, up) == FNorm(IF up THEN BAdd(m, BOne) ELSE m, e)

\* the quotient dm holds MantBits bits, or one more; the bits below decide the rounding
RNRound(e, dm) ==
    IF BitLen(dm.quot) > MantBits
    THEN RNUp(BHalf(dm.quot), e + 1,
              BOdd(dm.quot) /\ (~dm.exact \/ BOdd(BHalf(dm.quot))))
    ELSE RNUp(dm.quot, e,
              dm.half = 1 \/ (dm.half = 0 /\ ~dm.exact /\ BOdd(dm.quot)))

RNShift(p, q, e0, s) ==
    RNRound(e0 - s, BDivMod(IF s >= 0 THEN BShl(p, s) ELSE p,
                            IF s >= 0 THEN q ELSE BShl(q, -s)))

\* the double nearest to (p / q) * 2^e0
RN(p, q, e0) ==
    IF p = <<>> THEN FZero
    ELSE RNShift(p, q, e0, MantBits - (BitLen(p) - BitLen(q)))

\* the number a decimal literal n / 10^k denotes (Number("1.115") is Dec(1115, 3))
Dec(n, k) == RN(BFromInt(n), BPow10(k), 0)

FOne == Dec(1, 0)
FHundred == Dec(100, 0)

MinInt(x, y) == IF x <= y THEN x ELSE y

\* a / b, a * b, a + b on numbers (b not zero in a / b)
FDiv(a, b) == RN(a.m, b.m, a.e - b.e)
FMul(a, b) == RN(BMul(a.m, b.m), BOne, a.e + b.e)
FAdd(a, b) ==
    IF a.m = <<>> THEN b
    ELSE IF b.m = <<>> THEN a
    ELSE RN(BAdd(BShl(a.m, a.e - MinInt(a.e, b.e)), BShl(b.m, b.e - MinInt(a.e, b.e))),
            BOne, MinInt(a.e, b.e))

\* the integer floor(x * c + 1/2), for a number x and a positive integer c
RoundHalfUp(x, c) ==
    IF x.e >= 0 THEN BShl(BMulSmall(x.m, c), x.e)
    ELSE BShr(BAdd(BMulSmall(x.m, c), BShl(BOne, -x.e - 1)), -x.e)

\* Math.round(x): the integer nearest to x, a tie going up
MathRound(x) == RN(RoundHalfUp(x, 1), BOne, 0)

(***************************************************************************)
(* The values the model draws from.                                        *)
(***************************************************************************)
DB_NAME == "costsdb"
OTHER_NAME == "otherdb"
DbNames == {DB_NAME, OTHER_NAME}
DB_VERSION == 1
Versions == {DB_VERSION, DB_VERSION + 1}
Libs == {"module", "vanilla"}

\* instants around month and year boundaries, in increasing order
TYearEnd == Utc(2024, 12, 31, 23, 30)
TAugEnd == Utc(2025, 8, 31, 22, 30)
TExample == Utc(2025, 9, 12, 23, 59)
TSepEnd == Utc(2025, 9, 30, 23, 0)
TOctStart == Utc(2025, 10, 1, 2, 0)
Instants == <<TYearEnd, TAugEnd, TExample, TSepEnd, TOctStart>>

\* New York (EST), UTC, Israel (IDT)
TimeZones == {-300, 0, 180}

Payload(sum, currency, category, description) ==
    [sum |-> sum, currency |-> currency, category |-> category, description |-> description]

Pizza == Payload(Dec(100, 0), "USD", "Food", "pizza")
Fuel == Payload(Dec(90, 0), "EURO", "Transportation", "fuel")
Zoom == Payload(Dec(120, 0), "GBP", "Education", "Zoom License")
Gum == Payload(Dec(1115, 3), "USD", "Food", "gum")

\* rate tables: the README's reply, the table of the conversion example, the
\* default argument of getReport, and a reply that holds a zero
RatesReadme == [c \in {"USD", "GBP", "EURO", "ILS"} |->
                  CASE c = "USD" -> Dec(1, 0) [] c = "GBP" -> Dec(18, 1)
                    [] c = "EURO" -> Dec(7, 1) [] c = "ILS" -> Dec(34, 1)]
RatesExample == [c \in {"USD", "EURO"} |-> IF c = "USD" THEN Dec(1, 0) ELSE Dec(9, 1)]
RatesDefault == [c \in {"USD"} |-> Dec(1, 0)]
RatesZero == [c \in {"USD", "GBP", "EURO", "ILS"} |->
                CASE c = "USD" -> Dec(1, 0) [] c = "GBP" -> Dec(18, 1)
                  [] c = "EURO" -> FZero [] c = "ILS" -> Dec(34, 1)]

Query(year, month, currency, rates) ==
    [year |-> year, month |-> month, currency |-> currency, rates |-> rates]

\* the record as it would be stored were the date cut down to its day
Stored_DayOnly(id, p, date) ==
    [id |-> id, sum |-> p.sum, currency |-> p.currency, category |-> p.category,
     description |-> p.description, date |-> (date \div MinutesOfDay) * MinutesOfDay]

\* a stored record: the item of addCost with the key the store generated
Stored(id, p, date) ==
    [id |-> id, sum |-> p.sum, currency |-> p.currency, category |-> p.category,
     description |-> p.description, date |-> date]

(***************************************************************************)
(* getReport: the computation on the records read.                         *)
(***************************************************************************)
\* the filter as it would be with the UTC accessors
InPeriod_UTC(item, year, month, off) ==
    getUTCFullYear(item.date) = year /\ getUTCMonth(item.date) + 1 = month

\* the filter as it would be with the month index compared as it is (no + 1)
InPeriod_MonthIndex(item, year, month, off) ==
    getFullYear(item.date, off) = year /\ getMonth(item.date, off) = month

\* the filter as it would be were the date read off the clock (new Date()) and
\* not off the record
InPeriod_Clock(item, year, month, off) ==
    getFullYear(now, off) = year /\ getMonth(now, off) + 1 = month

\* the filter callback: the record's local year and month are the requested ones
InPeriod(item, year, month, off) ==
    getFullYear(item.date, off) = year /\ getMonth(item.date, off) + 1 = month

filteredCosts(allItems, year, month, off) ==
    SelectSeq(allItems, LAMBDA item : InPeriod(item, year, month, off))

\* module version: the line item carries the text YYYY-MM-DD
costsWithDate(item, off) ==
    [sum |-> item.sum, currency |-> item.currency, category |-> item.category,
     description |-> item.description,
     date |-> IsoDate(DateUTC(getFullYear(item.date, off), getMonth(item.date, off),
                              getDate(item.date, off)))]

\* the line item as it would be with getDay() (the day of the week, Sunday 0;
\* 1970-01-01 was a Thursday) in the place of getDate()
VanillaCosts_getDay(item, off) ==
    [sum |-> item.sum, currency |-> item.currency, category |-> item.category,
     description |-> item.description,
     Date |-> [day |-> (((item.date + off) \div MinutesOfDay) + 4) % 7]]

\* vanilla version: the line item carries Date: { day }
VanillaCosts(item, off) ==
    [sum |-> item.sum, currency |-> item.currency, category |-> item.category,
     description |-> item.description, Date |-> [day |-> getDate(item.date, off)]]

\* exchangeRates[c] || 1: a missing entry and a zero both give 1
RateOr1(exchangeRates, c) ==
    IF c \in DOMAIN exchangeRates /\ exchangeRates[c] # FZero
    THEN exchangeRates[c] ELSE FOne

\* the reduce over the first n filtered records, from 0
RECURSIVE totalUSD(_, _, _)
totalUSD(items, exchangeRates, n) ==
    IF n = 0 THEN FZero
    ELSE FAdd(totalUSD(items, exchangeRates, n - 1),
              FDiv(items[n].sum, RateOr1(exchangeRates, items[n].currency)))

\* the conversion as it would be with `|| 0` for a target the table lacks
convertedTotal_OrZero(usd, targetCurrency, exchangeRates) ==
    FMul(usd, IF targetCurrency \in DOMAIN exchangeRates
              THEN exchangeRates[targetCurrency] ELSE FZero)

convertedTotal(usd, targetCurrency, exchangeRates) ==
    FMul(usd, RateOr1(exchangeRates, targetCurrency))

\* Math.round(x * 100) / 100
Round2(x) == FDiv(MathRound(FMul(x, FHundred)), FHundred)

\* the activation of getReport once getAll has delivered allItems: its locals and
\* the report it returns
FrameOf(lib, q, off, allItems, flt, usd, conv) ==
    [allItems |-> allItems,
     filteredCosts |-> flt,
     rate |-> [i \in 1..Len(flt) |-> RateOr1(q.rates, flt[i].currency)],
     targetRate |-> RateOr1(q.rates, q.currency),
     totalUSD |-> usd,
     convertedTotal |-> conv,
     report |-> [year |-> q.year, month |-> q.month,
                 costs |-> [i \in 1..Len(flt) |->
                              IF lib = "module" THEN costsWithDate(flt[i], off)
                              ELSE VanillaCosts(flt[i], off)],
                 total |-> [currency |-> q.currency, total |-> Round2(conv)]]]

FrameTotal(lib, q, off, allItems, flt, usd) ==
    FrameOf(lib, q, off, allItems, flt, usd, convertedTotal(usd, q.currency, q.rates))

FrameFiltered(lib, q, off, allItems, flt) ==
    FrameTotal(lib, q, off, allItems, flt, totalUSD(flt, q.rates, Len(flt)))

ReportFrame(lib, allItems, q, off) ==
    FrameFiltered(lib, q, off, allItems, filteredCosts(allItems, q.year, q.month, off))

(***************************************************************************)
(* The engine's state and the calls in flight.                             *)
(*                                                                         *)
(* dbs[n] = [exists, version, costs, keygen]: costs is the object store    *)
(* 'costs' in key order; keygen is the key its generator hands out next.   *)
(*                                                                         *)
(* A call is [op, lib, arg, name, stage, promise, tx, t0, t1, item, key,   *)
(* after, error, frame]:                                                   *)
(*   stage    "open"    its open (or delete) request waits in the queue    *)
(*                      of requests on database `name`                     *)
(*            "blocked" its delete request has fired `blocked` and waits   *)
(*            "tx"      its transaction is created, its request is placed  *)
(*            "commit"  its request has succeeded, the transaction is      *)
(*                      still to commit                                    *)
(*            "end"     nothing of it is left to run                       *)
(*   promise  "pending", "resolved" or "rejected"                          *)
(*   tx       "none", "active", "committed" or "aborted"                   *)
(*   t0, t1   the clock when it was issued and when its promise settled    *)
(*   item     the object addCost builds and resolves to (none: <<>>)       *)
(*   key      the key the store generated for that object                  *)
(*   after    the calls whose promise had resolved when it was issued      *)
(*   frame    the locals and the result of getReport (none: <<>>)          *)
(***************************************************************************)
NoDb == [exists |-> FALSE, version |-> 0, costs |-> <<>>, keygen |-> 1]

Call(op, lib, arg, name) ==
    [op |-> op, lib |-> lib, arg |-> arg, name |-> name,
     stage |-> "open", promise |-> "pending", tx |-> "none",
     t0 |-> now, t1 |-> now, item |-> <<>>, key |-> 0,
     after |-> {d \in 1..Len(calls) : calls[d].promise = "resolved"},
     error |-> "", frame |-> <<>>]

\* the calls made by the panels' handlers
Handled == UNION {runs[r].calls : r \in DOMAIN runs}

\* a caller other than a handler makes a call (at most MaxCalls such calls)
Issue(call) ==
    /\ Len(calls) - Cardinality(Handled) < MaxCalls
    /\ calls' = Append(calls, call)
    /\ UNCHANGED <<now, tz, dbs, conns>>

\* requests on one database are served in the order they were made
Turn(c) ==
    \A d \in 1..(c - 1) :
        calls[d].name = calls[c].name => calls[d].stage \notin {"open", "blocked"}

ReadOnly(c) == calls[c].op = "getReport"

\* the rule as it would be were every transaction started as soon as it is created
TxTurn_AtOnce(c) == c \in 1..Len(calls)

\* a transaction starts once every transaction created before it on the store
\* has finished, read-only ones excepted when it is read-only itself
TxTurn(c) ==
    \A d \in 1..(c - 1) :
        (calls[d].name = calls[c].name /\ calls[d].stage \in {"tx", "commit"})
            => (ReadOnly(c) /\ ReadOnly(d))

\* the version as it would be were the operations to open the database at the
\* version it has (indexedDB.open(name) with no version)
OpenVersion_Current(c) ==
    IF calls[c].op = "openCostsDB" THEN calls[c].arg.version
    ELSE IF dbs[calls[c].name].version > DB_VERSION THEN dbs[calls[c].name].version
    ELSE DB_VERSION

\* the version a call opens its database at
OpenVersion(c) == IF calls[c].op = "openCostsDB" THEN calls[c].arg.version ELSE DB_VERSION

Settle(call, promise, error) ==
    [call EXCEPT !.promise = promise, !.error = error, !.t1 = now]

(***************************************************************************)
(* The library's entry points.  Each makes its request at once.            *)
(***************************************************************************)
\* openCostsDB(dbName, dbVersion)
OpenCostsDB(name, version) ==
    Issue(Call("openCostsDB", "module", [name |-> name, version |-> version], name))

\* addCost as it would be were it to write to the database opened last by the caller
AddCost_Other(cost) == Issue(Call("addCost", "module", cost, OTHER_NAME))

\* addCost(cost): starts with openCostsDB()
AddCost(cost) == Issue(Call("addCost", "module", cost, DB_NAME))

\* getReport(year, month, targetCurrency, exchangeRates), of either version
GetReport(q, lib) == Issue(Call("getReport", lib, q, DB_NAME))

\* clearAll()
ClearAll == Issue(Call("clearAll", "module", <<>>, DB_NAME))

\* deleteDB(name)
DeleteDB(name) == Issue(Call("deleteDB", "module", name, name))

(***************************************************************************)
(* The engine's events and the handlers they run.                          *)
(***************************************************************************)
\* the item as it would be were a date of the payload to stand (cost.date || new Date())
Item_PayloadDate(cost, t) ==
    [sum |-> cost.sum, currency |-> cost.currency, category |-> cost.category,
     description |-> cost.description,
     date |-> IF "date" \in DOMAIN cost THEN cost.date ELSE t]

\* the object addCost builds from its argument when the clock shows t
Item(cost, t) ==
    [sum |-> cost.sum, currency |-> cost.currency, category |-> cost.category,
     description |-> cost.description, date |-> t]

\* the database as it would be were the store recreated by every upgrade
Upgraded_Recreate(db, v) ==
    IF db.exists /\ db.version = v THEN db
    ELSE [exists |-> TRUE, version |-> v, costs |-> <<>>, keygen |-> 1]

\* the database once an open at version v has succeeded: onupgradeneeded, when it
\* runs, creates the store 'costs' only if the database has none
Upgraded(db, v) == [db EXCEPT !.exists = TRUE, !.version = v]

\* indexedDB.open is served.  A version above the requested one is a VersionError;
\* a missing database or a lower version runs onupgradeneeded, which waits for
\* every other connection to close; then onsuccess resolves, and the awaiting
\* operation goes on in the same turn: it creates its transaction and places its
\* request (addCost stamps the item with new Date() here).
OpenDone(c) ==
    LET call == calls[c]
        n    == call.name
        db   == dbs[n]
        v    == OpenVersion(c)
    IN  /\ c \in 1..Len(calls)
        /\ call.stage = "open" /\ call.op # "deleteDB"
        /\ Turn(c)
        /\ (~db.exists \/ db.version < v) => conns[n] = 0
        /\ IF db.exists /\ db.version > v
           THEN /\ calls' = [calls EXCEPT ![c] =
                                [Settle(call, "rejected", "VersionError") EXCEPT !.stage = "end"]]
                /\ UNCHANGED <<dbs, conns>>
           ELSE /\ dbs' = [dbs EXCEPT ![n] = Upgraded(db, v)]
                /\ conns' = [conns EXCEPT ![n] = @ + 1]
                /\ calls' = [calls EXCEPT ![c] =
                      CASE call.op = "openCostsDB" ->
                             [Settle(call, "resolved", "") EXCEPT !.stage = "end"]
                        [] call.op = "addCost" ->
                             [call EXCEPT !.stage = "tx", !.tx = "active",
                                          !.item = <<Item(call.arg, now)>>]
                        [] OTHER ->
                             [call EXCEPT !.stage = "tx", !.tx = "active"]]
        /\ UNCHANGED <<now, tz>>

\* the open request fails: request.onerror rejects with request.error
OpenFail(c) ==
    /\ c \in 1..Len(calls)
    /\ calls[c].stage = "open" /\ calls[c].op # "deleteDB"
    /\ Turn(c)
    /\ calls' = [calls EXCEPT ![c] =
                    [Settle(calls[c], "rejected", "OpenError") EXCEPT !.stage = "end"]]
    /\ UNCHANGED <<now, tz, dbs, conns>>

\* the request of a started transaction succeeds and its onsuccess runs:
\*   add     resolve(item); the record is written when the transaction commits
\*   clear   resolve(); the store is emptied when the transaction commits
\*   getAll  the rest of getReport runs on request.result and the report resolves
Requested(c) ==
    LET call == calls[c]
        db   == dbs[call.name]
    IN  [calls EXCEPT ![c] =
           CASE call.op = "addCost" ->
                  [Settle(call, "resolved", "") EXCEPT !.stage = "commit", !.key = db.keygen]
             [] call.op = "clearAll" ->
                  [Settle(call, "resolved", "") EXCEPT !.stage = "commit"]
             [] OTHER ->
                  [Settle(call, "resolved", "") EXCEPT
                     !.stage = "end", !.tx = "committed",
                     !.frame = <<ReportFrame(call.lib, db.costs, call.arg, tz)>>]]

RequestDone(c) ==
    LET call == calls[c]
    IN  /\ c \in 1..Len(calls)
        /\ call.stage = "tx"
        /\ TxTurn(c)
        /\ calls' = Requested(c)
        /\ UNCHANGED <<now, tz, dbs, conns>>

\* the request fails: request.onerror rejects with request.error, and the error,
\* which nothing handles, aborts the transaction
RequestFail(c) ==
    /\ c \in 1..Len(calls)
    /\ calls[c].stage = "tx"
    /\ TxTurn(c)
    /\ calls' = [calls EXCEPT ![c] =
                    [Settle(calls[c], "rejected", "RequestError") EXCEPT
                        !.stage = "end", !.tx = "aborted"]]
    /\ UNCHANGED <<now, tz, dbs, conns>>

\* the store as it would be were add a put under the key of the last record
Added_Put(db, key, item) ==
    IF db.costs = <<>>
    THEN [db EXCEPT !.costs = <<Stored(key, item, item.date)>>, !.keygen = key + 1]
    ELSE [db EXCEPT !.costs[Len(db.costs)] = Stored(db.costs[Len(db.costs)].id, item, item.date)]

\* store.add(item), committed: the record enters the store under the generated key
Added(db, key, item) ==
    [db EXCEPT !.costs = Append(@, Stored(key, item, item.date)), !.keygen = key + 1]

\* the store as it would be were the key generator to start again after a clear
Cleared_ResetKeys(db) == [db EXCEPT !.costs = <<>>, !.keygen = 1]

\* store.clear(), committed: no record is left; the key generator goes on
Cleared(db) == [db EXCEPT !.costs = <<>>]

\* a read-write transaction whose request succeeded commits: its write reaches the store
Commit(c) ==
    LET call == calls[c]
        db   == dbs[call.name]
    IN  /\ c \in 1..Len(calls)
        /\ call.stage = "commit"
        /\ dbs' = [dbs EXCEPT ![call.name] =
              IF call.op = "addCost" THEN Added(db, call.key, call.item[1]) ELSE Cleared(db)]
        /\ calls' = [calls EXCEPT ![c] = [call EXCEPT !.stage = "end", !.tx = "committed"]]
        /\ UNCHANGED <<now, tz, conns>>

\* the commit fails (quota, I/O): the transaction aborts and nothing of it is stored;
\* no handler of the library hears of it (it sets neither tx.onabort nor tx.oncomplete)
Abort(c) ==
    /\ c \in 1..Len(calls)
    /\ calls[c].stage = "commit"
    /\ calls' = [calls EXCEPT ![c] = [calls[c] EXCEPT !.stage = "end", !.tx = "aborted"]]
    /\ UNCHANGED <<now, tz, dbs, conns>>

\* indexedDB.deleteDatabase is served: with no connection open the database goes
\* and onsuccess resolves; otherwise onblocked rejects and the request keeps waiting
DeleteRun(c) ==
    LET call == calls[c]
        n    == call.name
    IN  /\ c \in 1..Len(calls)
        /\ call.stage = "open" /\ call.op = "deleteDB"
        /\ Turn(c)
        /\ IF conns[n] = 0
           THEN /\ dbs' = [dbs EXCEPT ![n] = NoDb]
                /\ calls' = [calls EXCEPT ![c] =
                                [Settle(call, "resolved", "") EXCEPT !.stage = "end"]]
           ELSE /\ dbs' = dbs
                /\ calls' = [calls EXCEPT ![c] =
                                [Settle(call, "rejected", "Blocked") EXCEPT !.stage = "blocked"]]
        /\ UNCHANGED <<now, tz, conns>>

\* the last connection has closed: the waiting delete request is carried out; its
\* onsuccess calls resolve on a promise that is already rejected
DeleteLate(c) ==
    /\ c \in 1..Len(calls)
    /\ calls[c].stage = "blocked"
    /\ conns[calls[c].name] = 0
    /\ dbs' = [dbs EXCEPT ![calls[c].name] = NoDb]
    /\ calls' = [calls EXCEPT ![c] = [calls[c] EXCEPT !.stage = "end"]]
    /\ UNCHANGED <<now, tz, conns>>

\* connections held by calls whose transaction is still running
InUse(n) == Cardinality({c \in 1..Len(calls) :
                            calls[c].name = n /\ calls[c].stage \in {"tx", "commit"}})

\* a page holding an idle connection goes away (closed tab, reload): the engine
\* closes the connection; the library itself never does.  Only a waiting delete
\* or upgrade can tell that a connection has gone, so only then is the step taken.
ConnClosed(n) ==
    /\ conns[n] > InUse(n)
    /\ \E c \in 1..Len(calls) :
          /\ calls[c].name = n /\ calls[c].stage \in {"open", "blocked"}
          /\ calls[c].op = "deleteDB" \/ dbs[n].version < OpenVersion(c)
    /\ conns' = [conns EXCEPT ![n] = @ - 1]
    /\ UNCHANGED <<now, tz, dbs, calls>>

\* time passes
Tick(i) ==
    /\ i \in 1..Len(Instants)
    /\ Instants[i] > now
    /\ now' = Instants[i]
    /\ UNCHANGED <<tz, dbs, conns, calls>>

(***************************************************************************)
(* Spec: the library under every interleaving of its calls with the        *)
(* engine's events.  The profile starts with no database, or with one     *)
(* record left by an earlier session; the clock starts on the last evening *)
(* of September 2025 (UTC) and may pass into October.                      *)
(***************************************************************************)
Calls == 1..Len(calls)

MainPayloads == {Pizza}
MainQueries == {Query(2025, 9, "USD", RatesReadme), Query(2025, 10, "EURO", RatesExample)}

ExistingDb(costs) ==
    [exists |-> TRUE, version |-> DB_VERSION, costs |-> costs, keygen |-> Len(costs) + 1]

Init ==
    /\ now = Instants[Len(Instants) - 1]
    /\ tz \in TimeZones
    /\ \E db \in {NoDb, ExistingDb(<<Stored(1, Zoom, TExample)>>)} :
           dbs = [n \in DbNames |-> IF n = DB_NAME THEN db ELSE NoDb]
    /\ conns = [n \in DbNames |-> 0]
    /\ calls = <<>>
    /\ storage = <<>>
    /\ runs = <<>>

Next ==
    \/ \E n \in DbNames, v \in Versions : OpenCostsDB(n, v) /\ Idle
    \/ \E cost \in MainPayloads : AddCost(cost) /\ Idle
    \/ \E q \in MainQueries, lib \in Libs : GetReport(q, lib) /\ Idle
    \/ ClearAll /\ Idle
    \/ \E n \in DbNames : DeleteDB(n) /\ Idle
    \/ \E c \in Calls : OpenDone(c) /\ Idle
    \/ \E c \in Calls : OpenFail(c) /\ Idle
    \/ \E c \in Calls : RequestDone(c) /\ Idle
    \/ \E c \in Calls : RequestFail(c) /\ Idle
    \/ \E c \in Calls : Commit(c) /\ Idle
    \/ \E c \in Calls : Abort(c) /\ Idle
    \/ \E c \in Calls : DeleteRun(c) /\ Idle
    \/ \E c \in Calls : DeleteLate(c) /\ Idle
    \/ \E n \in DbNames : ConnClosed(n) /\ Idle
    \/ \E i \in 1..Len(Instants) : Tick(i) /\ Idle

Spec == Init /\ [][Next]_vars

(***************************************************************************)
(* SpecPeriod, SpecTotal: getReport as a function of the stored records,   *)
(* the timezone and its arguments.  The store is drawn; one getReport is   *)
(* issued and runs to its end with no failure.  SpecPeriod varies the      *)
(* records' dates, the timezone and the period asked for; SpecTotal the    *)
(* sums, the currencies, the target currency and the rate table.           *)
(***************************************************************************)
\* the stores of at most n records whose payloads are in ps and whose dates are in
\* ts, keys counting from 1 and dates not decreasing, as addCost leaves them
RECURSIVE Stores(_, _, _)
Stores(n, ps, ts) ==
    IF n = 0 THEN {<<>>}
    ELSE LET less == Stores(n - 1, ps, ts)
         IN  less \cup {Append(st, Stored(Len(st) + 1, p, t)) :
                            st \in {x \in less : Len(x) = n - 1},
                            p \in ps, t \in ts}

Sorted(st) == \A i \in 1..(Len(st) - 1) : st[i].date <= st[i + 1].date

InstantSet == {Instants[i] : i \in 1..Len(Instants)}

InitDrawn(zones, stores) ==
    /\ now = Instants[Len(Instants)]
    /\ tz \in zones
    /\ \E st \in stores :
           dbs = [n \in DbNames |-> IF n = DB_NAME THEN ExistingDb(st) ELSE NoDb]
    /\ conns = [n \in DbNames |-> 0]
    /\ calls = <<>>
    /\ storage = <<>>
    /\ runs = <<>>

NextDrawn(queries) ==
    \/ \E q \in queries, lib \in Libs : calls = <<>> /\ GetReport(q, lib) /\ Idle
    \/ \E c \in Calls : OpenDone(c) /\ Idle
    \/ \E c \in Calls : RequestDone(c) /\ Idle

PeriodQueries ==
    {Query(ym[1], ym[2], "USD", RatesReadme) :
        ym \in {<<2024, 12>>, <<2025, 1>>, <<2025, 8>>, <<2025, 9>>, <<2025, 10>>}}

PeriodPayloads == {Pizza, Gum}
InitPeriod ==
    InitDrawn(TimeZones, {st \in Stores(MaxRecs, PeriodPayloads, InstantSet) : Sorted(st)})
NextPeriod == NextDrawn(PeriodQueries)
SpecPeriod == InitPeriod /\ [][NextPeriod]_vars

TotalPayloads == {Pizza, Fuel, Zoom, Gum}
TotalQueries ==
    {Query(2025, 9, cur, rates) :
        cur \in {"USD", "EURO", "ILS"},
        rates \in {RatesReadme, RatesExample, RatesDefault, RatesZero}}

InitTotal == InitDrawn({0}, Stores(MaxRecs, TotalPayloads, {TExample}))
NextTotal == NextDrawn(TotalQueries)
SpecTotal == InitTotal /\ [][NextTotal]_vars

(***************************************************************************)
(* SpecDestroy: connects and deletes only, in a profile whose database     *)
(* exists and may be held open by another page of the application.  The    *)
(* engine serves every request it can serve (weak fairness on its          *)
(* events); no request has to fail and no page has to close.               *)
(***************************************************************************)
InitDestroy ==
    /\ now = Instants[Len(Instants)]
    /\ tz = 0
    /\ dbs = [n \in DbNames |->
                IF n = DB_NAME THEN ExistingDb(<<Stored(1, Zoom, TExample)>>) ELSE NoDb]
    /\ conns \in {[n \in DbNames |-> IF n = DB_NAME THEN k ELSE 0] : k \in {0, 1}}
    /\ calls = <<>>
    /\ storage = <<>>
    /\ runs = <<>>

EngineDestroy == \E c \in Calls : (OpenDone(c) \/ DeleteRun(c) \/ DeleteLate(c)) /\ Idle

NextDestroy ==
    \/ \E n \in DbNames, v \in Versions : OpenCostsDB(n, v) /\ Idle
    \/ \E n \in DbNames : DeleteDB(n) /\ Idle
    \/ \E c \in Calls : OpenDone(c) /\ Idle
    \/ \E c \in Calls : OpenFail(c) /\ Idle
    \/ \E c \in Calls : DeleteRun(c) /\ Idle
    \/ \E c \in Calls : DeleteLate(c) /\ Idle
    \/ \E n \in DbNames : ConnClosed(n) /\ Idle

SpecDestroy == InitDestroy /\ [][NextDestroy]_vars /\ WF_vars(EngineDestroy)

(***************************************************************************)
(* SpecStamp: addCost calls only, some of them with a payload that brings  *)
(* a date and an id of its own, while the clock moves.                     *)
(***************************************************************************)
\* the payload of Pizza with two fields more
PizzaDated ==
    [sum |-> Pizza.sum, currency |-> Pizza.currency, category |-> Pizza.category,
     description |-> Pizza.description, date |-> TYearEnd, id |-> 7]

StampPayloads == {Pizza, PizzaDated, Gum}

InitStamp ==
    /\ now = TExample
    /\ tz = 0
    /\ \E db \in {NoDb, ExistingDb(<<Stored(1, Zoom, TAugEnd)>>)} :
           dbs = [n \in DbNames |-> IF n = DB_NAME THEN db ELSE NoDb]
    /\ conns = [n \in DbNames |-> 0]
    /\ calls = <<>>
    /\ storage = <<>>
    /\ runs = <<>>

NextStamp ==
    \/ \E cost \in StampPayloads : AddCost(cost) /\ Idle
    \/ \E c \in Calls : OpenDone(c) /\ Idle
    \/ \E c \in Calls : RequestDone(c) /\ Idle
    \/ \E c \in Calls : Commit(c) /\ Idle
    \/ \E c \in Calls : Abort(c) /\ Idle
    \/ \E i \in 1..Len(Instants) : Tick(i) /\ Idle

SpecStamp == InitStamp /\ [][NextStamp]_vars

(***************************************************************************)
(* SpecStore: the calls that can change the database of the application    *)
(* (connects at either version, addCost, clearAll, deleteDB) and one       *)
(* report, under every interleaving with the engine's events, in one       *)
(* timezone and with the clock at rest.                                    *)
(***************************************************************************)
InitStore ==
    /\ now = TSepEnd
    /\ tz = 0
    /\ \E db \in {NoDb, ExistingDb(<<Stored(1, Zoom, TExample)>>)} :
           dbs = [n \in DbNames |-> IF n = DB_NAME THEN db ELSE NoDb]
    /\ conns = [n \in DbNames |-> 0]
    /\ calls = <<>>
    /\ storage = <<>>
    /\ runs = <<>>

NextStore ==
    \/ \E v \in Versions : OpenCostsDB(DB_NAME, v) /\ Idle
    \/ AddCost(Pizza) /\ Idle
    \/ GetReport(Query(2025, 9, "USD", RatesReadme), "module") /\ Idle
    \/ ClearAll /\ Idle
    \/ DeleteDB(DB_NAME) /\ Idle
    \/ \E c \in Calls : OpenDone(c) /\ Idle
    \/ \E c \in Calls : OpenFail(c) /\ Idle
    \/ \E c \in Calls : RequestDone(c) /\ Idle
    \/ \E c \in Calls : RequestFail(c) /\ Idle
    \/ \E c \in Calls : Commit(c) /\ Idle
    \/ \E c \in Calls : Abort(c) /\ Idle
    \/ \E c \in Calls : DeleteRun(c) /\ Idle
    \/ \E c \in Calls : DeleteLate(c) /\ Idle
    \/ ConnClosed(DB_NAME) /\ Idle

SpecStore == InitStore /\ [][NextStore]_vars

(***************************************************************************)
(* SpecRepeat: reports only, asked again and again of a store that does    *)
(* not change, while the clock passes from September into October.         *)
(***************************************************************************)
InitRepeat ==
    /\ now = TSepEnd
    /\ tz \in TimeZones
    /\ dbs = [n \in DbNames |->
                IF n = DB_NAME
                THEN ExistingDb(<<Stored(1, Zoom, TAugEnd), Stored(2, Gum, TExample)>>)
                ELSE NoDb]
    /\ conns = [n \in DbNames |-> 0]
    /\ calls = <<>>
    /\ storage = <<>>
    /\ runs = <<>>

NextRepeat ==
    \/ \E q \in MainQueries, lib \in Libs : GetReport(q, lib) /\ Idle
    \/ \E c \in Calls : OpenDone(c) /\ Idle
    \/ \E c \in Calls : RequestDone(c) /\ Idle
    \/ \E i \in 1..Len(Instants) : Tick(i) /\ Idle

SpecRepeat == InitRepeat /\ [][NextRepeat]_vars

(***************************************************************************)
(* The application's pages: the settings service (localStorage), the       *)
(* exchange service (fetchRates) and the two handlers that ask for a       *)
(* report, onGenerate of ReportPanel and onBuild of ChartsPanel.  A text   *)
(* is the sequence of its characters.  A JSON object is a function from    *)
(* its keys; a JSON number is a double, a JSON string is [text |-> ...].   *)
(*                                                                         *)
(* A run of a handler is [handler, year, month, currency, setting, stage,  *)
(* fetch, url, body, rates, awaits, calls, rows, total, error]:            *)
(*   setting what localStorage held for the key when the run started       *)
(*   stage   "fetch"   fetch(url) is under way                             *)
(*           "json"    the response has come, res.json() is under way      *)
(*           "report"  the handler awaits its getReport                    *)
(*           "bar"     onBuild awaits the twelve reports of the bar chart  *)
(*           "end"     the handler has returned (finally has run)          *)
(*   fetch   the promise of fetchRates: "pending", "resolved", "rejected"  *)
(*   url     the URL of the network request made (none: <<>>)              *)
(*   body    what res.json() delivered (nothing: <<>>)                     *)
(*   rates   the value fetchRates resolved to (none: <<>>)                 *)
(*   awaits  the calls whose promises the handler awaits                   *)
(*   calls   every library call the run has made                           *)
(*   rows, total   what onGenerate has set with setRows and setTotal       *)
(***************************************************************************)
\* String.prototype.trim
RECURSIVE Trim(_)
Trim(s) ==
    IF s = <<>> THEN s
    ELSE IF Head(s) = " " THEN Trim(Tail(s))
    ELSE IF s[Len(s)] = " " THEN Trim(SubSeq(s, 1, Len(s) - 1))
    ELSE s

\* what the user may have typed into the URL field
Urls == {<<>>, <<" ">>, <<"u">>, <<" ", "u", " ">>}

\* the URL as it would be were a missing setting replaced by a built-in address
getRatesUrl_Default == IF storage = <<>> THEN <<"u">> ELSE storage[1]

\* getRatesUrl(): localStorage.getItem(KEY) || ''
getRatesUrl == IF storage = <<>> THEN <<>> ELSE storage[1]

\* setRatesUrl(url): localStorage.setItem(KEY, url.trim())
setRatesUrl(url) ==
    /\ storage' = <<Trim(url)>>
    /\ UNCHANGED <<now, tz, dbs, conns, calls, runs>>

\* onSave of SettingsPanel, with url in the field: a blank text is refused
onSave(url) ==
    IF Trim(url) = <<>> THEN UNCHANGED vars ELSE setRatesUrl(url)

SUPPORTED_CURRENCIES == {"USD", "ILS", "GBP", "EURO"}

\* the check as it would be were one numeric rate enough
Validated_Some(data) ==
    \E k \in SUPPORTED_CURRENCIES : k \in DOMAIN data /\ "text" \notin DOMAIN data[k]

\* the forEach of fetchRates throws nothing: typeof data[k] is 'number' for every k
Validated(data) ==
    \A k \in SUPPORTED_CURRENCIES : k \in DOMAIN data /\ "text" \notin DOMAIN data[k]

\* how fetch(url) may settle: a response (ok or not), or a network error
Replies == {[ok |-> TRUE, status |-> 200], [ok |-> FALSE, status |-> 404],
            [ok |-> FALSE, status |-> 0, error |-> "TypeError"]}

\* the README's reply with the rate of GBP sent as a string
RatesText == [c \in SUPPORTED_CURRENCIES |->
                IF c = "GBP" THEN [text |-> "1.8"] ELSE RatesReadme[c]]

\* how res.json() may settle: an object (<<data>>), or a syntax error (<<>>)
Bodies == {<<>>, <<RatesReadme>>, <<RatesExample>>, <<RatesZero>>, <<RatesText>>}

\* fetchRates() up to its first await, in run: it throws when no URL is set,
\* and makes the network request otherwise
fetchRates(run) ==
    IF getRatesUrl = <<>>
    THEN [run EXCEPT !.stage = "end", !.fetch = "rejected",
                     !.error = "No exchange rates URL set in Settings."]
    ELSE [run EXCEPT !.url = <<getRatesUrl>>]

\* busy (ReportPanel) and loading (ChartsPanel): the button is disabled
Busy(handler) == \E r \in DOMAIN runs : runs[r].handler = handler /\ runs[r].stage # "end"

\* the button of a panel is clicked with year, month and currency in its fields
Clicked(handler, year, month, currency) ==
    /\ Len(runs) < MaxCalls
    /\ ~Busy(handler)
    /\ runs' = Append(runs, fetchRates(
          [handler |-> handler, year |-> year, month |-> month, currency |-> currency,
           setting |-> storage, stage |-> "fetch", fetch |-> "pending", url |-> <<>>, body |-> <<>>,
           rates |-> <<>>, awaits |-> {}, calls |-> {}, rows |-> <<>>, total |-> <<>>,
           error |-> ""]))
    /\ UNCHANGED <<now, tz, dbs, conns, calls, storage>>

onGenerate(year, month, currency) == Clicked("onGenerate", year, month, currency)

onBuild(year, month, currency) == Clicked("onBuild", year, month, currency)

\* fetch(url) settles: a network error and a response that is not ok reject fetchRates
Responded(r, res) ==
    /\ r \in DOMAIN runs
    /\ runs[r].stage = "fetch"
    /\ runs' = [runs EXCEPT ![r] =
          IF res.ok THEN [@ EXCEPT !.stage = "json"]
          ELSE [@ EXCEPT !.stage = "end", !.fetch = "rejected",
                         !.error = IF "error" \in DOMAIN res THEN res.error
                                   ELSE "Failed fetching rates"]]
    /\ UNCHANGED <<now, tz, dbs, conns, calls, storage>>

\* the arguments as they would be were the table left to getReport's default
Asked_Default(run, month) == Query(run.year, month, run.currency, RatesDefault)

\* the arguments of the handler's getReport for a month: Number(year), the month,
\* currency and the rates fetchRates resolved to

Asked(run, month) == Query(run.year, month, run.currency, run.rates[1])

\* res.json() settles.  A syntax error and a table that fails the validation
\* reject fetchRates; otherwise it resolves to data and the handler goes on to
\* call getReport for its month.
Parsed(r, json) ==
    /\ r \in DOMAIN runs
    /\ runs[r].stage = "json"
    /\ IF json # <<>> /\ Validated(json[1])
       THEN LET run == [runs[r] EXCEPT !.fetch = "resolved", !.body = json, !.rates = json,
                                       !.stage = "report",
                                       !.awaits = {Len(calls) + 1},
                                       !.calls = {Len(calls) + 1}]
            IN  /\ runs' = [runs EXCEPT ![r] = run]
                /\ calls' = Append(calls, Call("getReport", "module",
                                               Asked(run, run.month), DB_NAME))
       ELSE /\ runs' = [runs EXCEPT ![r] =
                          [@ EXCEPT !.stage = "end", !.fetch = "rejected", !.body = json,
                                    !.error = IF json = <<>> THEN "SyntaxError"
                                              ELSE "Missing/invalid rate"]]
            /\ calls' = calls
    /\ UNCHANGED <<now, tz, dbs, conns, storage>>

\* buildRows(report): day is c?.Date?.day ?? 0
buildRows(report) ==
    [i \in 1..Len(report.costs) |->
        [id |-> i,
         day |-> IF "Date" \in DOMAIN report.costs[i] THEN report.costs[i].Date.day ELSE 0,
         category |-> report.costs[i].category,
         description |-> report.costs[i].description,
         currency |-> report.costs[i].currency,
         sum |-> report.costs[i].sum]]

\* the run once the calls it awaits are as in cs: a rejection goes to catch, the
\* report goes to setRows and setTotal (onGenerate), the twelve reports end onBuild
Continued(run, cs) ==
    IF run.stage \notin {"report", "bar"} THEN run
    ELSE IF \E c \in run.awaits : cs[c].promise = "rejected"
    THEN [run EXCEPT !.stage = "end", !.awaits = {},
                     !.error = cs[CHOOSE c \in run.awaits : cs[c].promise = "rejected"].error]
    ELSE IF \A c \in run.awaits : cs[c].promise = "resolved"
    THEN [run EXCEPT !.stage = "end", !.awaits = {},
                     !.rows = IF run.handler = "onGenerate"
                              THEN buildRows(cs[CHOOSE c \in run.awaits : TRUE].frame[1].report)
                              ELSE <<>>,
                     !.total = IF run.handler = "onGenerate"
                               THEN <<cs[CHOOSE c \in run.awaits : TRUE].frame[1].report.total>>
                               ELSE <<>>]
    ELSE run

\* the handlers that await a call go on in the step that settles it
Resume ==
    /\ runs' = [r \in DOMAIN runs |-> Continued(runs[r], calls')]
    /\ storage' = storage

\* the call is the first getReport of a run of onBuild (the one of the pie chart)
IsPie(c) ==
    \E r \in DOMAIN runs :
        runs[r].handler = "onBuild" /\ runs[r].stage = "report" /\ c \in runs[r].awaits

\* buildStackedBar(year, targetCurrency, rates): the twelve calls it makes at once
buildStackedBar(year, targetCurrency, rates) ==
    [m \in 1..12 |->
        Call("getReport", "module", Query(year, m, targetCurrency, rates), DB_NAME)]

\* the getAll of onBuild's first report succeeds: the report resolves, the pie
\* chart is set and buildStackedBar starts the twelve reports of the year
PieDone(c) ==
    /\ c \in 1..Len(calls)
    /\ IsPie(c)
    /\ calls[c].stage = "tx"
    /\ TxTurn(c)
    /\ LET r     == CHOOSE x \in DOMAIN runs : c \in runs[x].awaits
           bar   == buildStackedBar(runs[r].year, runs[r].currency,
                                    Asked(runs[r], runs[r].month).rates)
           made  == (Len(calls) + 1)..(Len(calls) + Len(bar))
       IN  /\ calls' = Requested(c) \o [m \in 1..Len(bar) |->
                                           [bar[m] EXCEPT !.after = @ \cup {c}]]
           /\ runs' = [runs EXCEPT ![r] =
                          [@ EXCEPT !.stage = "bar", !.awaits = made, !.calls = @ \cup made]]
    /\ UNCHANGED <<now, tz, dbs, conns, storage>>

(***************************************************************************)
(* SpecPanel: the settings page and the two panels over a store of two     *)
(* records of September 2025, in one timezone and with the clock at rest.  *)
(* The network answers as it likes.  The user does one thing at a time     *)
(* (saves a URL or clicks a button once the run before has ended), no      *)
(* other caller uses the library (SpecChart has one), and the engine       *)
(* answers the handlers' reads in the order they were asked.               *)
(***************************************************************************)
\* no handler is running
Quiet == \A r \in DOMAIN runs : runs[r].stage = "end"

\* call c is no handler's, or every call a handler made before it has run to its end
Answered(c) == c \in Handled => \A d \in Handled : d < c => calls[d].stage = "end"

InitPanel ==
    /\ now = TSepEnd
    /\ tz = 0
    /\ dbs = [n \in DbNames |->
                IF n = DB_NAME
                THEN ExistingDb(<<Stored(1, Zoom, TAugEnd), Stored(2, Gum, TExample)>>)
                ELSE NoDb]
    /\ conns = [n \in DbNames |-> 0]
    /\ calls = <<>>
    /\ storage = <<>>
    /\ runs = <<>>

NextPanel ==
    \/ \E url \in Urls : Quiet /\ setRatesUrl(url)
    \/ \E url \in Urls : Quiet /\ onSave(url)
    \/ Quiet /\ onGenerate(2025, 9, "USD")
    \/ Quiet /\ onBuild(2025, 9, "EURO")
    \/ \E r \in DOMAIN runs, res \in Replies : Responded(r, res)
    \/ \E r \in DOMAIN runs, json \in Bodies : Parsed(r, json)
    \/ \E c \in Calls : OpenDone(c) /\ Resume
    \/ \E c \in Calls : c \in Handled /\ calls[c].after = {} /\ OpenFail(c) /\ Resume
    \/ \E c \in Calls : ~IsPie(c) /\ Answered(c) /\ RequestDone(c) /\ Resume
    \/ \E c \in Calls : Answered(c) /\ PieDone(c)

SpecPanel == InitPanel /\ [][NextPanel]_vars

(***************************************************************************)
(* SpecChart: one run of onBuild, from the saving of the URL to the bar     *)
(* chart, with a valid reply, while another caller adds costs and clears   *)
(* the store.  The engine answers the handler's reads in the order they    *)
(* were asked, and every commit succeeds.  A call made while the twelve    *)
(* reports are under way is queued behind their twelve open requests       *)
(* whenever it is made; the other caller makes it before the first of      *)
(* them is served.                                                         *)
(***************************************************************************)
\* no report of a bar chart has been served yet
BarWaits ==
    \A r \in DOMAIN runs :
        runs[r].stage = "bar" => \A c \in runs[r].awaits : calls[c].stage = "open"

NextChart ==
    \/ runs = <<>> /\ setRatesUrl(<<"u">>)
    \/ runs = <<>> /\ onBuild(2025, 9, "EURO")
    \/ \E r \in DOMAIN runs : Responded(r, [ok |-> TRUE, status |-> 200])
    \/ \E r \in DOMAIN runs : Parsed(r, <<RatesReadme>>)
    \/ BarWaits /\ AddCost(Pizza) /\ Idle
    \/ BarWaits /\ ClearAll /\ Idle
    \/ \E c \in Calls : OpenDone(c) /\ Resume
    \/ \E c \in Calls : ~IsPie(c) /\ Answered(c) /\ RequestDone(c) /\ Resume
    \/ \E c \in Calls : PieDone(c)
    \/ \E c \in Calls : Commit(c) /\ Idle

SpecChart == InitPanel /\ [][NextChart]_vars

(***************************************************************************)
(* SpecHandle: callers that hold a handle.  The README's test page opens   *)
(* 'costsdb' with the vanilla library and calls addCost on what it got;    *)
(* another caller opens a database of another name, which a script of the  *)
(* same origin may have filled before, and uses addCost, getReport and     *)
(* clearAll.                                                               *)
(***************************************************************************)
\* the members of the object openCostsDB resolves to, request.result (an IDBDatabase)
IDBDatabase ==
    {"name", "version", "objectStoreNames", "transaction", "close",
     "createObjectStore", "deleteObjectStore"}

\* test(): const db = await idb.openCostsDB("costsdb", 1)
TestOpen ==
    Issue(Call("openCostsDB", "vanilla", [name |-> DB_NAME, version |-> DB_VERSION], DB_NAME))

\* test(): await db.addCost(cost), db being what call c resolved to.  A member
\* that is a function is called; a missing one is undefined, and calling it
\* throws a TypeError before any promise is made.
TestAddCost(c, cost) ==
    /\ c \in 1..Len(calls)
    /\ calls[c].op = "openCostsDB" /\ calls[c].lib = "vanilla"
    /\ calls[c].promise = "resolved"
    /\ IF "addCost" \in IDBDatabase
       THEN Issue(Call("addCost", "vanilla", cost, calls[c].name))
       ELSE Issue([Call("addCost", "vanilla", cost, calls[c].name) EXCEPT
                      !.stage = "end", !.promise = "thrown", !.error = "TypeError"])

InitHandle ==
    /\ now = TSepEnd
    /\ tz = 0
    /\ dbs \in {[n \in DbNames |-> IF n = DB_NAME THEN db ELSE other] :
                   db \in {NoDb, ExistingDb(<<Stored(1, Zoom, TExample)>>)},
                   other \in {NoDb, ExistingDb(<<Stored(1, Fuel, TExample)>>)}}
    /\ conns = [n \in DbNames |-> 0]
    /\ calls = <<>>
    /\ storage = <<>>
    /\ runs = <<>>

NextHandle ==
    \/ TestOpen /\ Idle
    \/ \E c \in Calls : TestAddCost(c, Pizza) /\ Idle
    \/ \E v \in Versions : OpenCostsDB(OTHER_NAME, v) /\ Idle
    \/ AddCost(Pizza) /\ Idle
    \/ GetReport(Query(2025, 9, "USD", RatesReadme), "module") /\ Idle
    \/ ClearAll /\ Idle
    \/ \E c \in Calls : OpenDone(c) /\ Idle
    \/ \E c \in Calls : RequestDone(c) /\ Idle
    \/ \E c \in Calls : Commit(c) /\ Idle

SpecHandle == InitHandle /\ [][NextHandle]_vars

(***************************************************************************)
(* Properties of the library under Spec.                                   *)
(***************************************************************************)
IsResolved(c, op) == calls[c].op = op /\ calls[c].promise = "resolved"

SamePayload(r, p) ==
    /\ r.sum = p.sum /\ r.currency = p.currency
    /\ r.category = p.category /\ r.description = p.description

\* no call other than addCost and getReport has been issued
OnlyAddAndReport == \A d \in Calls : calls[d].op \in {"addCost", "getReport"}

\* the period asked for is the year and month of instant t, in UTC and on the
\* local clock alike
PeriodOf(q, t) ==
    /\ q.year = getUTCFullYear(t) /\ q.month = getUTCMonth(t) + 1
    /\ q.year = getFullYear(t, tz) /\ q.month = getMonth(t, tz) + 1

\* C1 (round trip): once addCost(p) has resolved and neither clearAll nor
\* deleteDB is called, a getReport issued afterwards for the year and month of
\* the insertion instant returns a line item with p's sum, currency, category and
\* description, whose stored date lies between the start and the end of the
\* addCost call.
C1_RoundTrip ==
    \A a \in Calls, g \in Calls :
        ( /\ IsResolved(a, "addCost") /\ IsResolved(g, "getReport")
          /\ a \in calls[g].after
          /\ \A d \in Calls : calls[d].op \notin {"clearAll", "deleteDB"}
          /\ PeriodOf(calls[g].arg, calls[a].item[1].date) )
        => \E i \in 1..Len(calls[g].frame[1].report.costs) :
              /\ SamePayload(calls[g].frame[1].report.costs[i], calls[a].arg)
              /\ calls[g].frame[1].filteredCosts[i].id = calls[a].key
              /\ calls[g].frame[1].filteredCosts[i].date >= calls[a].t0
              /\ calls[g].frame[1].filteredCosts[i].date <= calls[a].t1

\* C2 (read after write): in a run of addCost and getReport calls only, a
\* getReport issued after an addCost promise has resolved reads the record that
\* addCost wrote.
C2_ReadAfterWrite ==
    \A a \in Calls, g \in Calls :
        ( /\ OnlyAddAndReport
          /\ IsResolved(a, "addCost") /\ IsResolved(g, "getReport")
          /\ a \in calls[g].after )
        => \E i \in 1..Len(calls[g].frame[1].allItems) :
              calls[g].frame[1].allItems[i] =
                  Stored(calls[a].key, calls[a].arg, calls[a].item[1].date)

\* C3 (write failure is atomic and surfaced): whenever the write transaction of
\* an addCost aborts, the promise of that addCost is rejected from then on and
\* the step leaves the store as it was.
C3_WriteFailureSurfaced ==
    [][ \A c \in Calls :
          ( /\ calls[c].op = "addCost"
            /\ calls[c].tx # "aborted" /\ calls'[c].tx = "aborted" )
          => (calls'[c].promise = "rejected" /\ dbs' = dbs) ]_vars

(***************************************************************************)
(* Properties of getReport's period filter and line items, under           *)
(* SpecPeriod.                                                             *)
(***************************************************************************)
\* the instants at which the month (year, month) begins and ends on the local clock
LocalMonthStart(year, month) == Utc(year, month, 1, 0, 0) - tz
LocalMonthEnd(year, month) ==
    IF month = 12 THEN LocalMonthStart(year + 1, 1) ELSE LocalMonthStart(year, month + 1)

InLocalMonth(t, year, month) ==
    LocalMonthStart(year, month) <= t /\ t < LocalMonthEnd(year, month)

InUTCMonth(t, year, month) == getUTCFullYear(t) = year /\ getUTCMonth(t) + 1 = month

\* the day of local month (year, month) that instant t falls on
LocalDay(t, year, month) == (t - LocalMonthStart(year, month)) \div MinutesOfDay + 1

\* the records of a store that lie in the local month, in store order
Matching(allItems, year, month) ==
    SelectSeq(allItems, LAMBDA r : InLocalMonth(r.date, year, month))

\* record i of the store that getReport call c read is among those it kept
Included(c, i) ==
    \E j \in 1..Len(calls[c].frame[1].filteredCosts) :
        calls[c].frame[1].filteredCosts[j].id = calls[c].frame[1].allItems[i].id

ReportYears == 2024..2026

\* the periods whose report, run against the store call c read, includes record i
PeriodsOf(c, i) ==
    {ym \in ReportYears \X (1..12) :
        \E j \in 1..Len(filteredCosts(calls[c].frame[1].allItems, ym[1], ym[2], tz)) :
            filteredCosts(calls[c].frame[1].allItems, ym[1], ym[2], tz)[j].id
                = calls[c].frame[1].allItems[i].id}

\* C5 (months partition the records): for every record of the store a getReport
\* read, exactly one (year, month) with month in 1..12 has a report that includes
\* the record, and the report computed includes it exactly when it was asked for
\* that period.
C5_MonthsPartition ==
    \A c \in Calls : IsResolved(c, "getReport") =>
        \A i \in 1..Len(calls[c].frame[1].allItems) :
            /\ Cardinality(PeriodsOf(c, i)) = 1
            /\ Included(c, i) <=> <<calls[c].arg.year, calls[c].arg.month>> \in PeriodsOf(c, i)

\* two records of one UTC month lie on the two sides of a local month boundary:
\* the report includes one and leaves the other to the neighbouring month
C5_Witness ==
    \E c \in Calls :
        /\ IsResolved(c, "getReport")
        /\ Len(calls[c].frame[1].allItems) = 2
        /\ Len(calls[c].frame[1].report.costs) = 1
        /\ InUTCMonth(calls[c].frame[1].allItems[1].date,
                      getUTCFullYear(calls[c].frame[1].allItems[2].date),
                      getUTCMonth(calls[c].frame[1].allItems[2].date) + 1)

\* the day of the month a line item carries: the last part of `date` (module
\* version), Date.day (vanilla version)
DayOf(lib, line) == IF lib = "module" THEN line.date[3] ELSE line.Date.day

AllListed(c) ==
    /\ calls[c].arg.currency \in DOMAIN calls[c].arg.rates
    /\ \A j \in 1..Len(calls[c].frame[1].filteredCosts) :
          calls[c].frame[1].filteredCosts[j].currency \in DOMAIN calls[c].arg.rates

\* sum over the first n records of sum / rate[currency], with the table's rates
RECURSIVE SumByTable(_, _, _)
SumByTable(items, rates, n) ==
    IF n = 0 THEN FZero
    ELSE FAdd(SumByTable(items, rates, n - 1), FDiv(items[n].sum, rates[items[n].currency]))

\* C6 (conversion formula): when the table lists the currencies, the unrounded
\* total is (sum over the matching records of sum / rate[currency]) *
\* rate[target]; a division by a zero rate gives no finite number, and the
\* total computed is one; records {100, USD}, {90, EURO} with rates {USD: 1,
\* EURO: 0.9} and target EURO give 180.
C6_ConversionFormula ==
    \A c \in Calls : (IsResolved(c, "getReport") /\ AllListed(c)) =>
        /\ \A j \in 1..Len(calls[c].frame[1].filteredCosts) :
              calls[c].arg.rates[calls[c].frame[1].filteredCosts[j].currency] # FZero
        /\ calls[c].frame[1].convertedTotal
              = FMul(SumByTable(calls[c].frame[1].filteredCosts, calls[c].arg.rates,
                                Len(calls[c].frame[1].filteredCosts)),
                     calls[c].arg.rates[calls[c].arg.currency])
        /\ ( /\ calls[c].frame[1].allItems = <<Stored(1, Pizza, TExample), Stored(2, Fuel, TExample)>>
             /\ calls[c].arg.rates = RatesExample /\ calls[c].arg.currency = "EURO" )
           => calls[c].frame[1].report.total.total = Dec(180, 0)

\* the accumulation the fallback policy describes: a record whose currency the
\* table lacks adds its raw sum, any other adds sum / (the rate the call used)
RECURSIVE SumWithFallback(_, _, _, _)
SumWithFallback(items, rates, used, n) ==
    IF n = 0 THEN FZero
    ELSE FAdd(SumWithFallback(items, rates, used, n - 1),
              IF items[n].currency \in DOMAIN rates THEN FDiv(items[n].sum, used[n])
              ELSE items[n].sum)

\* C7 (fallback policy): a getReport that has run has resolved; a matching
\* record whose currency is absent from the table adds its raw sum to the
\* base-currency accumulation (its rate is 1), and with a target currency absent
\* from the table the converted total is the accumulated base total.
C7_FallbackPolicy ==
    \A c \in Calls : (calls[c].op = "getReport" /\ calls[c].stage = "end") =>
        /\ calls[c].promise = "resolved"
        /\ \A j \in 1..Len(calls[c].frame[1].filteredCosts) :
              calls[c].frame[1].filteredCosts[j].currency \notin DOMAIN calls[c].arg.rates
                  => calls[c].frame[1].rate[j] = FOne
        /\ calls[c].frame[1].totalUSD
              = SumWithFallback(calls[c].frame[1].filteredCosts, calls[c].arg.rates,
                                calls[c].frame[1].rate, Len(calls[c].frame[1].filteredCosts))
        /\ calls[c].arg.currency \notin DOMAIN calls[c].arg.rates
              => calls[c].frame[1].convertedTotal = calls[c].frame[1].totalUSD

\* a report in a currency the table lacks, over two records whose currencies the
\* table lacks as well: its total is the plain sum 90 + 120
C7_Witness ==
    \E c \in Calls :
        /\ IsResolved(c, "getReport")
        /\ calls[c].arg.currency \notin DOMAIN calls[c].arg.rates
        /\ Len(calls[c].frame[1].filteredCosts) = 2
        /\ \A j \in 1..2 :
              calls[c].frame[1].filteredCosts[j].currency \notin DOMAIN calls[c].arg.rates
        /\ calls[c].frame[1].report.total.total = Dec(210, 0)

\* C8 (no other silent default): whenever the table holds a rate for a record's
\* currency, or for the target currency, whatever its value, that rate is the
\* one used to convert; 1 stands in only for a currency the table lacks.
C8_NoOtherDefault ==
    \A c \in Calls : IsResolved(c, "getReport") =>
        /\ \A j \in 1..Len(calls[c].frame[1].filteredCosts) :
              calls[c].frame[1].filteredCosts[j].currency \in DOMAIN calls[c].arg.rates
                  => calls[c].frame[1].rate[j]
                        = calls[c].arg.rates[calls[c].frame[1].filteredCosts[j].currency]
        /\ calls[c].arg.currency \in DOMAIN calls[c].arg.rates
              => calls[c].frame[1].targetRate = calls[c].arg.rates[calls[c].arg.currency]

ItemFields == {"sum", "currency", "category", "description", "date"}

\* C11 as stated (addCost resolves to the stored record): the value addCost
\* resolves to carries the store-assigned id beside the payload's fields and
\* the date stamped at insertion.
C11_ResolvesToStoredRecord ==
    \A a \in Calls : IsResolved(a, "addCost") =>
        /\ DOMAIN calls[a].item[1] = ItemFields \cup {"id"}
        /\ calls[a].item[1].id = calls[a].key

\* C11 as amended: the value addCost resolves to is the item it built, with the
\* payload's sum, currency, category and description and the date stamped
\* during the call, and without an id; when the transaction of that addCost
\* commits, the record the store gains is this value with the generated id added.
C11_ResolvesToItem ==
    [][ \A a \in Calls : calls'[a].op = "addCost" =>
          /\ calls'[a].promise = "resolved" =>
                /\ DOMAIN calls'[a].item[1] = ItemFields
                /\ SamePayload(calls'[a].item[1], calls'[a].arg)
                /\ calls'[a].item[1].date >= calls'[a].t0
                /\ calls'[a].item[1].date <= calls'[a].t1
          /\ (calls[a].tx # "committed" /\ calls'[a].tx = "committed") =>
                dbs'[DB_NAME].costs =
                    Append(dbs[DB_NAME].costs,
                           [id |-> calls'[a].key,
                            sum |-> calls'[a].item[1].sum,
                            currency |-> calls'[a].item[1].currency,
                            category |-> calls'[a].item[1].category,
                            description |-> calls'[a].item[1].description,
                            date |-> calls'[a].item[1].date]) ]_vars

\* an addCost issued before the clock moved has resolved and committed, and its
\* record is in the store under the generated id
C11_Witness ==
    \E a \in Calls :
        /\ IsResolved(a, "addCost") /\ calls[a].tx = "committed"
        /\ calls[a].t1 > calls[a].t0
        /\ \E i \in 1..Len(dbs[DB_NAME].costs) :
              /\ dbs[DB_NAME].costs[i].id = calls[a].key
              /\ dbs[DB_NAME].costs[i].date = calls[a].item[1].date

\* C12 (clear then report): once clearAll has resolved, and with no addCost
\* issued after it, every getReport issued after the resolution returns an
\* empty costs list and the total 0.
C12_ClearThenReport ==
    \A k \in Calls, g \in Calls :
        ( /\ IsResolved(k, "clearAll") /\ IsResolved(g, "getReport")
          /\ k \in calls[g].after
          /\ \A d \in Calls : d > k => calls[d].op # "addCost" )
        => /\ calls[g].frame[1].report.costs = <<>>
           /\ calls[g].frame[1].report.total.total = FZero

(***************************************************************************)
(* Properties of deleteDB: C13 under SpecDestroy, C14 under Spec.          *)
(***************************************************************************)
\* call c is a deleteDB whose request waits while a connection to its database
\* is open
DeleteWaits(c) ==
    /\ c \in Calls
    /\ calls[c].op = "deleteDB" /\ calls[c].stage = "open"
    /\ conns[calls[c].name] > 0

\* the promise of call c has rejected with the Blocked error, or no connection
\* to its database is left
DeleteBlocked(c) ==
    /\ c \in Calls
    /\ \/ calls[c].promise = "rejected" /\ calls[c].error = "Blocked"
       \/ conns[calls[c].name] = 0

\* C13 (destroy fails cleanly): whenever deleteDB(name) is called while a
\* connection to that database is open, and for as long as one stays open, the
\* promise eventually rejects with Blocked: it does not stay pending forever.
C13_DestroyFailsCleanly ==
    \A c \in 1..MaxCalls : DeleteWaits(c) ~> DeleteBlocked(c)

\* C14 (a blocked destroy leaves the data intact and is not retried): a
\* database that exists ceases to exist only in a step in which the promise of
\* a deleteDB call for it resolves; after a deleteDB has rejected with Blocked
\* the database and its records stay, also once the connections have closed.
C14_BlockedDestroyKeepsData ==
    [][ \A n \in DbNames :
          (dbs[n].exists /\ ~dbs'[n].exists) =>
              \E c \in Calls :
                  /\ calls[c].op = "deleteDB" /\ calls[c].name = n
                  /\ calls[c].promise = "pending" /\ calls'[c].promise = "resolved" ]_vars

(***************************************************************************)
(* Properties of the store's contents: C15, C17 and C18 under SpecStore    *)
(* (they hold under Spec as well), C16 under Spec.                         *)
(***************************************************************************)
\* the promise of call c settles in this step
Settles(c) == calls[c].promise = "pending" /\ calls'[c].promise # "pending"

\* C15 (idempotent connect): a call of openCostsDB(name, version) on a database
\* that exists, whichever its number among the connects made, leaves the
\* records of the store and its key generator as they were, and touches no
\* other database; on a database that does not exist it creates the empty store.
C15_IdempotentConnect ==
    [][ \A c \in Calls : (calls[c].op = "openCostsDB" /\ Settles(c)) =>
          /\ dbs[calls[c].name].exists =>
                /\ dbs'[calls[c].name].costs = dbs[calls[c].name].costs
                /\ dbs'[calls[c].name].keygen = dbs[calls[c].name].keygen
          /\ (~dbs[calls[c].name].exists /\ dbs'[calls[c].name].exists) =>
                dbs'[calls[c].name].costs = <<>>
          /\ \A m \in DbNames \ {calls[c].name} : dbs'[m] = dbs[m] ]_vars

\* two connects to the database of the application have resolved, one of them
\* at the higher version, and the record that was stored is still there
C15_Witness ==
    \E c \in Calls, d \in Calls :
        /\ c < d
        /\ IsResolved(c, "openCostsDB") /\ IsResolved(d, "openCostsDB")
        /\ calls[c].name = DB_NAME /\ calls[d].name = DB_NAME
        /\ calls[d].arg.version > DB_VERSION
        /\ dbs[DB_NAME].costs = <<Stored(1, Zoom, TExample)>>

\* the ids of the records stored in database n
Ids(db) == {db.costs[i].id : i \in 1..Len(db.costs)}

\* this step commits the transaction of call c
Commits(c) == calls[c].tx = "active" /\ calls'[c].tx = "committed"

\* this step carries out the delete request of call c and resolves its promise
Deletes(c) ==
    /\ calls[c].op = "deleteDB"
    /\ calls[c].promise = "pending" /\ calls'[c].promise = "resolved"
    /\ ~dbs'[calls[c].name].exists

\* C16 (record lifecycle): a step in which a stored record disappears is the
\* commit of a clearAll, and then no record of the store is left, or the step of
\* a successful deleteDB, and then the database is gone; no step removes some
\* records and keeps others.
C16_RecordLifecycle ==
    [][ \A n \in DbNames :
          \/ Ids(dbs[n]) \subseteq Ids(dbs'[n])
          \/ /\ dbs'[n].costs = <<>>
             /\ \E c \in Calls :
                   /\ calls[c].name = n
                   /\ \/ calls[c].op = "clearAll" /\ Commits(c)
                      \/ Deletes(c) ]_vars

\* C17 (records are immutable): a record that is in the store before and after
\* a step, whatever the step, has the same sum, currency, category, description
\* and date after it as before.
C17_RecordsImmutable ==
    [][ \A n \in DbNames :
          \A i \in 1..Len(dbs[n].costs), j \in 1..Len(dbs'[n].costs) :
              dbs[n].costs[i].id = dbs'[n].costs[j].id
                  => dbs[n].costs[i] = dbs'[n].costs[j] ]_vars

\* the record of an earlier session is still as it was after an addCost has
\* committed its record beside it
C17_Witness ==
    /\ Len(dbs[DB_NAME].costs) = 2
    /\ dbs[DB_NAME].costs[1] = Stored(1, Zoom, TExample)
    /\ \E a \in Calls : calls[a].op = "addCost" /\ calls[a].tx = "committed"

\* C18 (identifiers): the ids of the records of a database are pairwise distinct
\* and below the number its key generator is at; that number never decreases
\* while the database exists, a clearAll included; and an addCost that commits
\* stores its record under an id not below that number, hence above the id of
\* every addCost committed earlier in the lifetime of the database.
C18_Identifiers ==
    [][ \A n \in DbNames :
          /\ \A i \in 1..Len(dbs'[n].costs), j \in 1..Len(dbs'[n].costs) :
                (i < j) => dbs'[n].costs[i].id < dbs'[n].costs[j].id
          /\ \A i \in 1..Len(dbs'[n].costs) : dbs'[n].costs[i].id < dbs'[n].keygen
          /\ (dbs[n].exists /\ dbs'[n].exists) => dbs'[n].keygen >= dbs[n].keygen
          /\ \A a \in Calls :
                (calls[a].op = "addCost" /\ calls[a].name = n /\ Commits(a)) =>
                    /\ calls'[a].key >= dbs[n].keygen
                    /\ calls'[a].key \in Ids(dbs'[n])
                    /\ calls'[a].key \notin Ids(dbs[n]) ]_vars

\* after the record with id 1 was cleared away, an addCost has committed its
\* record under id 2
C18_Witness ==
    \E k \in Calls, a \in Calls :
        /\ k < a
        /\ calls[k].op = "clearAll" /\ calls[k].tx = "committed"
        /\ calls[a].op = "addCost" /\ calls[a].tx = "committed"
        /\ Ids(dbs[DB_NAME]) = {2}

(***************************************************************************)
(* Properties of the date of a record, under SpecStamp.                    *)
(***************************************************************************)
\* call c is an addCost that has built its item
HasItem(c) == calls[c].op = "addCost" /\ calls[c].item # <<>>

\* the record of the store with the id the store gave to call a
RecordOf(a) ==
    CHOOSE r \in {dbs[DB_NAME].costs[i] : i \in 1..Len(dbs[DB_NAME].costs)} : r.id = calls[a].key

\* C19 (the record date is store-assigned): the item of an addCost has the
\* payload's sum, currency, category and description and no other field of the
\* payload; its date is a value the clock showed during the call; two addCost
\* calls whose payloads agree on those four fields and that were stamped at the
\* same instant build identical items and, when both commit, store records that
\* differ in the id only.
C19_DateStoreAssigned ==
    \A a \in Calls : HasItem(a) =>
        /\ DOMAIN calls[a].item[1] = ItemFields
        /\ SamePayload(calls[a].item[1], calls[a].arg)
        /\ calls[a].item[1].date >= calls[a].t0 /\ calls[a].item[1].date <= now
        /\ \A b \in Calls :
              ( /\ HasItem(b)
                /\ SamePayload(calls[a].arg, calls[b].arg)
                /\ calls[a].item[1].date = calls[b].item[1].date )
              => /\ calls[a].item[1] = calls[b].item[1]
                 /\ (calls[a].tx = "committed" /\ calls[b].tx = "committed") =>
                       [RecordOf(a) EXCEPT !.id = 0] = [RecordOf(b) EXCEPT !.id = 0]

\* two addCost calls stamped at the same instant have both committed, one with
\* the plain payload and one with the payload that brings a date and an id
C19_Witness ==
    \E a \in Calls, b \in Calls :
        /\ calls[a].op = "addCost" /\ calls[a].tx = "committed" /\ calls[a].arg = Pizza
        /\ calls[b].op = "addCost" /\ calls[b].tx = "committed" /\ calls[b].arg = PizzaDated
        /\ calls[a].item[1].date = calls[b].item[1].date
        /\ calls[a].item[1].date > TExample

IsNumber(v) == DOMAIN v = {"m", "e"}

\* the reply holds a number under each of USD, ILS, GBP and EURO
FourNumeric(data) ==
    \A k \in {"USD", "ILS", "GBP", "EURO"} : k \in DOMAIN data /\ IsNumber(data[k])

\* C21 (rate table validation): fetchRates resolves only with a reply that holds a
\* number under each of USD, ILS, GBP and EURO, and resolves to that reply; when
\* one of the four is missing or is no number it rejects, resolves to no table,
\* and the run makes no call with any table.
C21_RateTableValidated ==
    \A r \in DOMAIN runs :
        /\ runs[r].fetch = "resolved" =>
              /\ runs[r].body # <<>> /\ FourNumeric(runs[r].body[1])
              /\ runs[r].rates = runs[r].body
        /\ (runs[r].body # <<>> /\ ~FourNumeric(runs[r].body[1])) =>
              /\ runs[r].fetch = "rejected"
              /\ runs[r].rates = <<>>
              /\ runs[r].calls = {}

\* one run was given a full table and another one a table with a string in it
C21_Witness ==
    \E r \in DOMAIN runs, q \in DOMAIN runs :
        /\ runs[r].fetch = "resolved" /\ runs[r].rates = <<RatesReadme>>
        /\ runs[q].fetch = "rejected" /\ runs[q].body = <<RatesText>>

\* C22 (no rate source): a fetchRates started while the stored setting is missing
\* or empty rejects with the no-URL error and makes no network request, then or
\* later.
C22_NoRateSource ==
    \A r \in DOMAIN runs :
        runs[r].setting \in {<<>>, << <<>> >>} =>
            /\ runs[r].fetch = "rejected"
            /\ runs[r].error = "No exchange rates URL set in Settings."
            /\ runs[r].url = <<>>
            /\ runs[r].body = <<>>
            /\ runs[r].calls = {}

\* a run started with no setting stored and another one with the empty text stored
C22_Witness ==
    \E r \in DOMAIN runs, q \in DOMAIN runs :
        /\ runs[r].setting = <<>> /\ runs[r].fetch = "rejected"
        /\ runs[q].setting = << <<>> >> /\ runs[q].fetch = "rejected"

\* C23 (rates before report): a run of onGenerate or onBuild whose fetchRates has
\* not resolved has made no library call; every call a run has made is a getReport
\* given the table the run's own fetchRates resolved to, which is the validated
\* reply of that run; and no getReport is made outside a run.
C23_RatesBeforeReport ==
    /\ \A r \in DOMAIN runs :
          /\ runs[r].fetch # "resolved" => runs[r].calls = {}
          /\ \A c \in runs[r].calls :
                /\ runs[r].fetch = "resolved"
                /\ FourNumeric(runs[r].body[1])
                /\ calls[c].op = "getReport"
                /\ calls[c].arg.rates = runs[r].body[1]
    /\ \A c \in Calls : \E r \in DOMAIN runs : c \in runs[r].calls

\* a run of onBuild has made its thirteen reports with its own table after an
\* earlier run had made its report with another table
C23_Witness ==
    \E r \in DOMAIN runs, q \in DOMAIN runs :
        /\ r < q /\ runs[r].rates = <<RatesReadme>> /\ runs[r].calls # {}
        /\ runs[q].handler = "onBuild" /\ runs[q].rates = <<RatesZero>>
        /\ runs[q].stage = "end" /\ Cardinality(runs[q].calls) = 13

\* C26 (rows show the day): when onGenerate has shown a report, each row's day is
\* the day of the month of the stored record it stands for.
C26_RowsShowDay ==
    \A r \in DOMAIN runs :
        (runs[r].handler = "onGenerate" /\ runs[r].stage = "end" /\ runs[r].total # <<>>) =>
            \A c \in runs[r].calls :
                /\ Len(runs[r].rows) = Len(calls[c].frame[1].filteredCosts)
                /\ \A i \in 1..Len(runs[r].rows) :
                      runs[r].rows[i].day = getDate(calls[c].frame[1].filteredCosts[i].date, tz)

(***************************************************************************)
(* Properties of the handle openCostsDB resolves to, under SpecHandle and  *)
(* SpecStore, of the two versions of getReport under SpecRepeat, of        *)
(* deleteDB under SpecDestroy and of the bar chart under SpecChart.        *)
(***************************************************************************)
\* C24 (the handle adds costs): addCost(cost) called on the object the vanilla
\* openCostsDB resolved to returns a promise (the call does not throw), and when
\* the promise resolves it resolves to an item with the sum, currency, category
\* and description of cost.
C24_HandleAddsCosts ==
    \A a \in Calls :
        (calls[a].op = "addCost" /\ calls[a].lib = "vanilla") =>
            /\ calls[a].promise \in {"pending", "resolved", "rejected"}
            /\ calls[a].promise = "resolved" =>
                  calls[a].item # <<>> /\ SamePayload(calls[a].item[1], calls[a].arg)

DestroyAfterUse(d) ==
    /\ d \in Calls
    /\ calls[d].op = "deleteDB" /\ calls[d].name = DB_NAME
    /\ calls[d].promise = "pending"
    /\ \E o \in calls[d].after :
          calls[o].op \in {"addCost", "getReport", "clearAll", "openCostsDB"}

\* connections to database n the calls of the library have opened
Held(n) == Cardinality({c \in Calls : /\ calls[c].name = n
                                      /\ IsResolved(c, "openCostsDB") \/ calls[c].tx # "none"})

\* C27 (connections are never released): every deleteDB('costsdb') made after an
\* addCost, getReport, clearAll or openCostsDB of the caller has completed
\* rejects with Blocked, unless the pages holding the connections have gone.
C27_DestroyAlwaysBlocked ==
    \A d \in 1..MaxCalls :
        DestroyAfterUse(d) ~>
            \/ d \in Calls /\ calls[d].promise = "rejected" /\ calls[d].error = "Blocked"
            \/ conns[DB_NAME] < Held(DB_NAME)

\* C28 (version lock-out): once openCostsDB('costsdb', v) with v above 1 has
\* resolved, and as long as no deleteDB of the database has been called, an
\* addCost, getReport or clearAll made afterwards never resolves and never
\* starts a transaction (so it changes no record); when it settles, it rejects
\* with the error of its open request.
C28_VersionLockOut ==
    \A o \in Calls, c \in Calls :
        ( /\ IsResolved(o, "openCostsDB") /\ calls[o].name = DB_NAME
          /\ calls[o].arg.version > DB_VERSION
          /\ calls[c].op \in {"addCost", "getReport", "clearAll"}
          /\ o \in calls[c].after
          /\ \A d \in Calls : ~(calls[d].op = "deleteDB" /\ calls[d].name = DB_NAME) )
        => /\ calls[c].promise # "resolved"
           /\ calls[c].tx = "none"
           /\ calls[c].promise = "rejected" => calls[c].error \in {"VersionError", "OpenError"}

\* an operation made after the upgrade has been refused with the version error
C28_Witness ==
    \E o \in Calls, c \in Calls :
        /\ IsResolved(o, "openCostsDB") /\ calls[o].name = DB_NAME
        /\ calls[o].arg.version > DB_VERSION
        /\ calls[c].op \in {"addCost", "getReport", "clearAll"}
        /\ o \in calls[c].after
        /\ calls[c].promise = "rejected" /\ calls[c].error = "VersionError"
        /\ dbs[DB_NAME].costs # <<>>

\* the twelve reports of the bar chart of run r
BarReports(r) == {c \in runs[r].calls : \E d \in runs[r].calls : d < c}

C30_OtherDatabaseUntouched ==
    [][ /\ (\E c \in Calls : calls[c].op \in {"addCost", "clearAll"} /\ calls'[c] # calls[c])
             => dbs'[OTHER_NAME] = dbs[OTHER_NAME]
        /\ \A g \in 1..Len(calls') :
              (calls'[g].op = "getReport" /\ calls'[g].frame # <<>>) =>
                  \A i \in 1..Len(calls'[g].frame[1].allItems) :
                      \A j \in 1..Len(dbs'[OTHER_NAME].costs) :
                          calls'[g].frame[1].allItems[i] # dbs'[OTHER_NAME].costs[j] ]_vars

\* the other database, opened by the caller, holds a record while an addCost has
\* committed and a report has been made
C30_Witness ==
    /\ dbs[OTHER_NAME].costs # <<>>
    /\ conns[OTHER_NAME] > 0
    /\ \/ \E a \in Calls : calls[a].op = "addCost" /\ calls[a].tx = "committed"
       \/ \E g \in Calls : IsResolved(g, "getReport") /\ calls[g].frame[1].allItems # <<>>

====
